---- MODULE Spec2Model ----
(***************************************************************************)
(* openhands/linter/languages/typescript.py: the TypeScript lint adapter.  *)
(* Calls of TypeScriptLinter.lint, ts_eslint and ts_tsc_lint are modelled  *)
(* statement group by statement group; the external tools (the result of   *)
(* run_cmd, the content of the linted file, a failing write of the         *)
(* temporary configuration) are inputs chosen by the environment.          *)
(*                                                                         *)
(* Text is a sequence of tokens.  A token is one character, except for the *)
(* two diagnostic markers the code searches for, which are one token each. *)
(***************************************************************************)
EXTENDS Integers, Sequences, FiniteSets, TLC

VARIABLES TS_INSTALLED, ESLINT_INSTALLED, file, disk, calls

vars == <<TS_INSTALLED, ESLINT_INSTALLED, file, disk, calls>>

-----------------------------------------------------------------------------
(* Bounds of the model.                                                    *)

NumCalls == 2       \* concurrent calls in SpecConc
MaxNames == 3       \* temporary file names the host can hand out
MaxResults == 2     \* entries of ESLint's JSON array
MaxMsgs == 2        \* messages in all entries of ESLint's JSON array
MaxLine == 2        \* line numbers ESLint reports
MaxOutLen == 4      \* tokens of tsc output between prefix and suffix (SpecTsc)
MaxCodeLen == 4     \* characters of the linted file (SpecHeur)

Callers == 1..NumCalls
Names == 1..MaxNames

FilePath == "f.ts"

-----------------------------------------------------------------------------
(* Text helpers: str.split, str.strip, int, '\n'.join.                     *)

RECURSIVE SeqsUpTo(_, _)
SeqsUpTo(A, n) ==
    IF n = 0 THEN {<<>>}
    ELSE LET shorter == SeqsUpTo(A, n - 1)
         IN shorter \cup {Append(s, a) : s \in shorter, a \in A}

RECURSIVE Split(_, _)
Split(s, sep) ==
    IF \A i \in 1..Len(s) : s[i] # sep THEN <<s>>
    ELSE LET i == CHOOSE k \in 1..Len(s) :
                      s[k] = sep /\ \A j \in 1..(k - 1) : s[j] # sep
         IN <<SubSeq(s, 1, i - 1)>> \o Split(SubSeq(s, i + 1, Len(s)), sep)

Whitespace == {" "}

RECURSIVE Strip(_)
Strip(s) ==
    IF Len(s) = 0 THEN s
    ELSE IF s[1] \in Whitespace THEN Strip(Tail(s))
    ELSE IF s[Len(s)] \in Whitespace THEN Strip(SubSeq(s, 1, Len(s) - 1))
    ELSE s

Digits == {"1", "2"}

DigitValue(d) == IF d = "1" THEN 1 ELSE 2

\* int(s) raises ValueError unless s is a non-empty run of digits
IsInt(s) == Len(s) > 0 /\ \A i \in 1..Len(s) : s[i] \in Digits

RECURSIVE IntOf(_)
IntOf(s) ==
    IF Len(s) = 0 THEN 0
    ELSE 10 * IntOf(SubSeq(s, 1, Len(s) - 1)) + DigitValue(s[Len(s)])

RECURSIVE Join(_, _)
Join(parts, sep) ==
    IF Len(parts) = 0 THEN <<>>
    ELSE IF Len(parts) = 1 THEN parts[1]
    ELSE parts[1] \o <<sep>> \o Join(Tail(parts), sep)

RECURSIVE Flatten(_)
Flatten(ss) == IF Len(ss) = 0 THEN <<>> ELSE ss[1] \o Flatten(Tail(ss))

-----------------------------------------------------------------------------
(* LintResult, as the three call sites build it.                           *)

LintResult(path, line, column, message) ==
    [file |-> path, line |-> line, column |-> column, message |-> message]

LintResultText(text, lines) == [text |-> text, lines |-> lines]

(* What a call hands back: a list, a bare record, or an exception.         *)
NoResult == [kind |-> "none", val |-> <<>>]
ListOf(items) == [kind |-> "list", val |-> items]
Bare(record) == [kind |-> "record", val |-> record]
Raise(exc) == [kind |-> "raise", val |-> exc]

-----------------------------------------------------------------------------
(* ts_tsc_lint: parsing the compiler's output (lines 110-128).             *)

ErrorMarker == ": error TS"
WarningMarker == ": warning TS"

HasMarker(line) ==
    \E i \in 1..Len(line) : line[i] = ErrorMarker \/ line[i] = WarningMarker

\* lines 114-127: zero or one LintResult for one line of output
TscLineResults(line) ==
    IF ~HasMarker(line) THEN <<>>
    ELSE LET byOpen == Split(line, "(")
         IN IF Len(byOpen) < 2 THEN <<>>                       \* IndexError
            ELSE LET location_part == Split(byOpen[2], ")")[1]
                     parts == Split(location_part, ",")
                 IN IF Len(parts) # 2 \/ ~IsInt(parts[1]) \/ ~IsInt(parts[2])
                    THEN <<>>                                  \* ValueError
                    ELSE <<LintResult(FilePath, IntOf(parts[1]),
                                      IntOf(parts[2]), line)>>

\* lines 112-128
ParseTscOutput(text) ==
    LET lines == Split(text, "\n")
    IN Flatten([i \in 1..Len(lines) |-> TscLineResults(lines[i])])

-----------------------------------------------------------------------------
(* ts_tsc_lint: the missing-semicolon heuristic (lines 135-155).           *)

\* lines 138-145
LooksUnterminated(line) ==
    LET stripped_line == Strip(line)
    IN /\ Len(stripped_line) > 0
       /\ stripped_line[Len(stripped_line)] # ";"
       /\ stripped_line[Len(stripped_line)] # "{"
       /\ stripped_line[Len(stripped_line)] # "}"
       /\ ~(Len(stripped_line) >= 2 /\ stripped_line[1] = "/"
                                    /\ stripped_line[2] = "/")

\* line 150
SemicolonMessage(line_no) ==
    <<FilePath, "(", ToString(line_no), ",1): error TS1005: ';' expected.">>

\* lines 135-155
SemicolonHeuristic(code) ==
    LET lines == Split(code, "\n")
    IN Flatten([i \in 1..Len(lines) |->
                  IF LooksUnterminated(lines[i])
                  THEN <<LintResult(FilePath, i, 1, SemicolonMessage(i))>>
                  ELSE <<>>])

-----------------------------------------------------------------------------
(* ts_eslint: what run_cmd can give back, and lines 66-94.                 *)

Get(d, key, default) == IF key \in DOMAIN d THEN d[key] ELSE default

\* entries of ESLint's "messages" arrays; any key may be absent
EslintMessages ==
    {[line |-> l, column |-> 1, message |-> "Missing semicolon.",
      ruleId |-> "semi"] : l \in 1..MaxLine}
    \cup {[line |-> 1, column |-> 2, message |-> "Parsing error"]}
    \cup {[message |-> "Fatal", ruleId |-> "semi"]}

\* entries of ESLint's JSON array holding at most n messages
EslintEntries(n) ==
    {[filePath |-> FilePath]}
    \cup {[filePath |-> FilePath, messages |-> ms] :
             ms \in SeqsUpTo(EslintMessages, n)}

MsgCount(entry) == Len(Get(entry, "messages", <<>>))

\* JSON arrays of at most n entries holding at most budget messages in all
RECURSIVE EslintArrays(_, _)
EslintArrays(n, budget) ==
    IF n = 0 THEN {<<>>}
    ELSE {<<>>} \cup UNION {
             {<<e>> \o rest : rest \in EslintArrays(n - 1, budget - MsgCount(e))} :
             e \in EslintEntries(budget)}

EslintDocs ==
    {[wf |-> "malformed"], [wf |-> "other"]}
    \cup {[wf |-> "array", doc |-> d] : d \in EslintArrays(MaxResults, MaxMsgs)}

LaunchErrors == {"FileNotFoundError", "PermissionError", "OSError"}

\* result of run_cmd(eslint_cmd): an exception, None or empty, or the tool's
\* output, which may or may not expose it as an attribute text
EslintOutcomes ==
    {[kind |-> "raise", exc |-> e] : e \in LaunchErrors}
    \cup {[kind |-> "none"]}
    \cup {[kind |-> "output", hasText |-> b, json |-> j] :
             b \in BOOLEAN, j \in EslintDocs}

\* a few of them, for the runs that interleave calls
SampleEslintOutcomes ==
    {[kind |-> "raise", exc |-> "FileNotFoundError"],
     [kind |-> "none"],
     [kind |-> "output", hasText |-> TRUE, json |-> [wf |-> "malformed"]],
     [kind |-> "output", hasText |-> TRUE,
      json |-> [wf |-> "array",
                doc |-> <<[filePath |-> FilePath,
                           messages |-> <<[line |-> 1, column |-> 1,
                                           message |-> "Missing semicolon.",
                                           ruleId |-> "semi"]>>]>>]]}

\* line 81
EslintMessageText(m) ==
    <<FilePath, ":", ToString(Get(m, "line", 0)), ":",
      ToString(Get(m, "column", 0)), ": ", Get(m, "message", "None"),
      " (", Get(m, "ruleId", "None"), ")">>

\* lines 73-86
ParseEslintOutput(eslint_output) ==
    LET messages == Flatten([i \in 1..Len(eslint_output) |->
                               Get(eslint_output[i], "messages", <<>>)])
        error_lines == [i \in 1..Len(messages) |-> Get(messages[i], "line", 0)]
        error_messages == [i \in 1..Len(messages) |->
                             EslintMessageText(messages[i])]
    IN IF Len(error_messages) = 0 THEN ListOf(<<>>)
       ELSE Bare(LintResultText(Join(error_messages, "\n"), error_lines))

EslintExcept_Narrow(exc) ==
    IF exc \in {"JSONDecodeError", "FileNotFoundError"} THEN ListOf(<<>>)
    ELSE Raise(exc)

\* lines 87-94: the three except clauses
EslintExcept(exc) == ListOf(<<>>)

\* lines 66-94 and 97: the value ts_eslint is about to return when the
\* finally clause starts
EslintRun(o) ==
    IF o.kind = "raise" THEN EslintExcept(o.exc)
    ELSE IF o.kind = "none" THEN ListOf(<<>>)                  \* line 97
    ELSE IF ~o.hasText THEN ListOf(<<>>)                       \* line 97
    ELSE IF o.json.wf = "malformed" THEN EslintExcept("JSONDecodeError")
    ELSE IF o.json.wf = "other" THEN EslintExcept("AttributeError")
    ELSE ParseEslintOutput(o.json.doc)

-----------------------------------------------------------------------------
(* Inputs of ts_tsc_lint.                                                  *)

TscTokens == {ErrorMarker, WarningMarker, "(", ")", ",", "1", "2", "\n"}

SampleTscTexts ==
    {<<>>,
     <<"x">>,
     <<"x", "(", "1", ",", "2", ")", ErrorMarker>>,
     <<"x", ErrorMarker, "\n", "x", "(", "2", ",", "1", ")", WarningMarker>>,
     <<"x", "(", "1", ",", "2", ")", ErrorMarker, "\n",
       "x", "(", "2", ",", "1", ")", WarningMarker, "x">>,
     <<"x", "(", "x", ")", "x", "(", "1", ",", "2", ")", ErrorMarker>>}

\* how the output starts: with nothing, with a plain path and the opening
\* parenthesis of the location, or the same after a path with parentheses in it
PathPrefixes == {<<>>, <<"x", "(">>, <<"x", "(", "x", ")", "x", "(">>}

\* how it ends: with nothing, or with the closing parenthesis of the location,
\* the marker and the message
LineSuffixes == {<<>>, <<")", ErrorMarker, "x">>}

TscTexts ==
    SampleTscTexts
    \cup {p \o s \o q : p \in PathPrefixes, s \in SeqsUpTo(TscTokens, MaxOutLen),
                        q \in LineSuffixes}

\* result of run_cmd(tsc_cmd): an exception, None, or the tool's output
TscOutcomes(texts) ==
    {[kind |-> "raise", exc |-> e] : e \in LaunchErrors}
    \cup {[kind |-> "none"]}
    \cup {[kind |-> "output", text |-> t] : t \in texts}

CodeChars == {" ", ";", "{", "}", "/", "a", "\n"}

Unreadable == [readable |-> FALSE, text |-> <<>>]

Readable(text) == [readable |-> TRUE, text |-> text]

Files(texts) == {Unreadable} \cup {Readable(t) : t \in texts}

CodeTexts == SeqsUpTo(CodeChars, MaxCodeLen)

SampleCodeTexts ==
    {<<>>, <<"a", ";">>, <<"a">>, <<"a", ";", "\n", " ", "a", "\n", "/", "/">>}

-----------------------------------------------------------------------------
(* State.                                                                  *)
(*   TS_INSTALLED, ESLINT_INSTALLED  the module-level flags (lines 10, 15) *)
(*   file    the linted file: readable or not, and its content             *)
(*   disk    for each temporary file name, the call whose NamedTemporary-  *)
(*           File created the file now under that name, 0 when none exists *)
(*   calls   for each call: pc, where it is; top, the function the caller  *)
(*           called; path, temp_config_path; cmd, the --config argument of *)
(*           the running eslint; run, what run_cmd gave; pending, the      *)
(*           value of the return statement the finally clause interrupts;  *)
(*           res, what the caller got and by, the function whose return    *)
(*           statement produced it; tools, the tools launched              *)

Idle ==
    [pc |-> "idle", top |-> "", path |-> 0, cmd |-> 0, run |-> [kind |-> "pending"],
     pending |-> NoResult, res |-> NoResult, by |-> "", tools |-> {}]

Init(files) ==
    /\ TS_INSTALLED \in BOOLEAN
    /\ ESLINT_INSTALLED \in BOOLEAN
    /\ file \in files
    /\ disk = [n \in Names |-> 0]
    /\ calls = [c \in Callers |-> Idle]

At(c, pc) == calls[c].pc = pc

Goto(c, pc) == calls' = [calls EXCEPT ![c].pc = pc]

\* a return statement, or an exception leaving the function
Return(c, result, function) ==
    calls' = [calls EXCEPT ![c].pc = "done", ![c].res = result, ![c].by = function]

Env == <<TS_INSTALLED, ESLINT_INSTALLED, file>>

Entry(function) ==
    CASE function = "lint" -> "lint"
      [] function = "ts_eslint" -> "eslint"
      [] function = "ts_tsc_lint" -> "tsc"

\* the caller calls one of the three functions
Call(c, functions) ==
    /\ At(c, "idle")
    /\ \E f \in functions :
          calls' = [calls EXCEPT ![c].pc = Entry(f), ![c].top = f]
    /\ UNCHANGED <<Env, disk>>

Lint_TscFirst(c) ==
    /\ At(c, "lint")
    /\ IF TS_INSTALLED THEN Goto(c, "tsc")
       ELSE IF ESLINT_INSTALLED THEN Goto(c, "eslint")
       ELSE Return(c, ListOf(<<>>), "lint")
    /\ UNCHANGED <<Env, disk>>

\* lines 163-168
Lint(c) ==
    /\ At(c, "lint")
    /\ IF ESLINT_INSTALLED THEN Goto(c, "eslint")
       ELSE IF TS_INSTALLED THEN Goto(c, "tsc")
       ELSE Return(c, ListOf(<<>>), "lint")
    /\ UNCHANGED <<Env, disk>>

-----------------------------------------------------------------------------
(* ts_eslint                                                               *)

\* lines 29-30
EslintEntry(c) ==
    /\ At(c, "eslint")
    /\ IF ~ESLINT_INSTALLED THEN Return(c, ListOf(<<>>), "ts_eslint")
       ELSE Goto(c, "mktemp")
    /\ UNCHANGED <<Env, disk>>

NamedTemporaryFile_Fixed(d) == {1}

\* lines 52-54: the names NamedTemporaryFile may give the new file: any name
\* under which no file exists
NamedTemporaryFile(d) == {n \in Names : d[n] = 0}

\* lines 52-54: the file is created, and stays (delete=False)
EslintCreateTemp(c) ==
    /\ At(c, "mktemp")
    /\ \E n \in NamedTemporaryFile(disk) :
          /\ disk' = [disk EXCEPT ![n] = c]
          /\ calls' = [calls EXCEPT ![c].pc = "write", ![c].path = n]
    /\ UNCHANGED Env

\* lines 55-56: json.dump and the close of the with block write the
\* configuration; a write that fails (a full disk) raises before line 58
EslintWriteConfig(c) ==
    /\ At(c, "write")
    /\ \/ Goto(c, "run")
       \/ Return(c, Raise("OSError"), "ts_eslint")
    /\ UNCHANGED <<Env, disk>>

\* lines 59-68: the command is built from temp_config_path and launched
EslintRunBegin(c) ==
    /\ At(c, "run")
    /\ calls' = [calls EXCEPT ![c].pc = "running", ![c].cmd = calls[c].path,
                              ![c].tools = @ \cup {"eslint"}]
    /\ UNCHANGED <<Env, disk>>

\* lines 68-94: run_cmd ends and its result is processed
EslintRunEnd(c, outcomes) ==
    /\ At(c, "running")
    /\ \E o \in outcomes :
          calls' = [calls EXCEPT ![c].pc = "finally", ![c].run = o,
                                 ![c].pending = EslintRun(o)]
    /\ UNCHANGED <<Env, disk>>

\* lines 95-97: os.unlink(temp_config_path), then the pending return
EslintFinally(c) ==
    /\ At(c, "finally")
    /\ IF disk[calls[c].path] = 0
       THEN /\ Return(c, Raise("FileNotFoundError"), "ts_eslint")
            /\ UNCHANGED disk
       ELSE /\ disk' = [disk EXCEPT ![calls[c].path] = 0]
            /\ Return(c, calls[c].pending, "ts_eslint")
    /\ UNCHANGED Env

-----------------------------------------------------------------------------
(* ts_tsc_lint                                                             *)

TscEntry_NoGuard(c) ==
    /\ At(c, "tsc")
    /\ Goto(c, "tsc_run")
    /\ UNCHANGED <<Env, disk>>

\* lines 103-104
TscEntry(c) ==
    /\ At(c, "tsc")
    /\ IF ~TS_INSTALLED THEN Return(c, ListOf(<<>>), "ts_tsc_lint")
       ELSE Goto(c, "tsc_run")
    /\ UNCHANGED <<Env, disk>>

\* lines 107-130: run_cmd(tsc_cmd) and the parse of what it printed
TscRun(c, outcomes) ==
    /\ At(c, "tsc_run")
    /\ \E o \in outcomes :
          LET ran == [calls EXCEPT ![c].run = o, ![c].tools = @ \cup {"tsc"}]
          IN IF o.kind = "raise" /\ o.exc # "FileNotFoundError"
             THEN calls' = [ran EXCEPT ![c].pc = "done", ![c].res = Raise(o.exc),
                                       ![c].by = "ts_tsc_lint"]
             ELSE IF o.kind = "output" /\ Len(o.text) > 0
             THEN calls' = [ran EXCEPT ![c].pc = "done",
                                       ![c].res = ListOf(ParseTscOutput(o.text)),
                                       ![c].by = "ts_tsc_lint"]
             ELSE calls' = [ran EXCEPT ![c].pc = "tsc_fallback"]
    /\ UNCHANGED <<Env, disk>>

\* lines 133-155: the file is read and the heuristic applied
TscFallback(c) ==
    /\ At(c, "tsc_fallback")
    /\ IF ~file.readable THEN Return(c, Raise("OSError"), "ts_tsc_lint")
       ELSE Return(c, ListOf(SemicolonHeuristic(file.text)), "ts_tsc_lint")
    /\ UNCHANGED <<Env, disk>>

-----------------------------------------------------------------------------
(* Specifications.                                                         *)

Functions == {"lint", "ts_eslint", "ts_tsc_lint"}

\* one call of any of the three functions
Next ==
    \/ Call(1, Functions)
    \/ Lint(1)
    \/ EslintEntry(1)
    \/ EslintCreateTemp(1)
    \/ EslintWriteConfig(1)
    \/ EslintRunBegin(1)
    \/ EslintRunEnd(1, EslintOutcomes)
    \/ EslintFinally(1)
    \/ TscEntry(1)
    \/ TscRun(1, TscOutcomes(SampleTscTexts))
    \/ TscFallback(1)

Spec == Init(Files(SampleCodeTexts)) /\ [][Next]_vars

\* calls of ts_eslint, interleaved
NextConc ==
    \E c \in Callers :
        \/ Call(c, {"ts_eslint"})
        \/ EslintEntry(c)
        \/ EslintCreateTemp(c)
        \/ EslintWriteConfig(c)
        \/ EslintRunBegin(c)
        \/ EslintRunEnd(c, SampleEslintOutcomes)
        \/ EslintFinally(c)

SpecConc == Init({Readable(<<"a">>)}) /\ [][NextConc]_vars

\* one call of ts_tsc_lint, over the outputs of the compiler
NextTsc ==
    \/ Call(1, {"ts_tsc_lint"})
    \/ TscEntry(1)
    \/ TscRun(1, TscOutcomes(TscTexts))
    \/ TscFallback(1)

SpecTsc == Init(Files({<<"a">>})) /\ [][NextTsc]_vars

\* one call of ts_tsc_lint, over the contents of the file
NextHeur ==
    \/ Call(1, {"ts_tsc_lint"})
    \/ TscEntry(1)
    \/ TscRun(1, TscOutcomes(SampleTscTexts))
    \/ TscFallback(1)

SpecHeur == Init(Files(CodeTexts)) /\ [][NextHeur]_vars

-----------------------------------------------------------------------------
(* Properties.                                                             *)

Done(c) == At(c, "done")

IsEmptyList(r) == r.kind = "list" /\ r.val = <<>>

\* all messages of ESLint's array, in order
ReportedMessages(doc) ==
    Flatten([i \in 1..Len(doc) |-> Get(doc[i], "messages", <<>>)])

\* the style tool ran and gave well-formed JSON reporting at least one message
EslintReported(c) ==
    /\ calls[c].by = "ts_eslint"
    /\ "eslint" \in calls[c].tools
    /\ calls[c].run.kind = "output"
    /\ calls[c].run.json.wf = "array"
    /\ Len(ReportedMessages(calls[c].run.json.doc)) > 0

\* the style tool ran and its run failed: an exception, or output that is not
\* the JSON array of objects
EslintFailed(c) ==
    /\ calls[c].by = "ts_eslint"
    /\ "eslint" \in calls[c].tools
    /\ \/ calls[c].run.kind = "raise"
       \/ /\ calls[c].run.kind = "output"
          /\ calls[c].run.json.wf # "array"

\* C1: no call of lint, ts_eslint or ts_tsc_lint ends by raising an exception
\* to its caller.
C1_NeverRaises ==
    \A c \in Callers : Done(c) => calls[c].res.kind # "raise"

\* C2: once a call of ts_eslint has returned or failed, no temporary
\* configuration file created by that call exists.
C2_TempFileGone ==
    \A c \in Callers : Done(c) => \A n \in Names : disk[n] # c

\* C3: lint dispatches by the flags only: ESLint if available, else tsc if
\* available, else no findings; at most one tool is launched per call and the
\* value returned is the one that tool's function returned.
C3_Dispatch ==
    \A c \in Callers :
        calls[c].top = "lint" =>
            /\ Cardinality(calls[c].tools) <= 1
            /\ calls[c].tools \subseteq
                  (IF ESLINT_INSTALLED THEN {"eslint"}
                   ELSE IF TS_INSTALLED THEN {"tsc"} ELSE {})
            /\ Done(c) =>
                  IF ESLINT_INSTALLED THEN calls[c].by = "ts_eslint"
                  ELSE IF TS_INSTALLED THEN calls[c].by = "ts_tsc_lint"
                  ELSE calls[c].by = "lint" /\ IsEmptyList(calls[c].res)

\* lint returned with both tools installed: ESLint ran, found nothing, and tsc
\* was not tried
C3_Witness ==
    \E c \in Callers :
        /\ Done(c) /\ calls[c].top = "lint"
        /\ ESLINT_INSTALLED /\ TS_INSTALLED
        /\ calls[c].tools = {"eslint"}
        /\ IsEmptyList(calls[c].res)

FindingText(m) ==
    <<FilePath, ":", ToString(m.line), ":", ToString(m.column), ": ",
      m.message, " (", m.ruleId, ")">>

\* C6: when ESLint reports messages in well-formed JSON, ts_eslint returns a
\* non-empty list holding, for each message, a Finding with that message's
\* line and the text path:line:col: message (ruleId).
C6_FindingPerMessage ==
    \A c \in Callers :
        (Done(c) /\ EslintReported(c)) =>
            LET ms == ReportedMessages(calls[c].run.json.doc)
                r == calls[c].res
            IN /\ r.kind = "list"
               /\ Len(r.val) >= 1
               /\ \A i \in 1..Len(ms) :
                     DOMAIN ms[i] = {"line", "column", "message", "ruleId"} =>
                        \E k \in 1..Len(r.val) :
                            /\ r.val[k].line = ms[i].line
                            /\ r.val[k].message = FindingText(ms[i])

\* C7: when ESLint is installed and its run fails, ts_eslint returns an empty
\* list.
C7_FailureGivesEmpty ==
    \A c \in Callers : (Done(c) /\ EslintFailed(c)) => IsEmptyList(calls[c].res)

\* ts_eslint returned after ESLint printed something that is not JSON
C7_Witness ==
    \E c \in Callers :
        /\ Done(c) /\ EslintFailed(c)
        /\ calls[c].run.kind = "output"
        /\ calls[c].run.hasText
        /\ calls[c].run.json.wf = "malformed"
        /\ IsEmptyList(calls[c].res)

-----------------------------------------------------------------------------
(* Properties of ts_tsc_lint.                                              *)

\* the elements of a set of numbers, ascending
RECURSIVE Ascending(_)
Ascending(S) ==
    IF S = {} THEN <<>>
    ELSE LET least == CHOOSE x \in S : \A y \in S : x <= y
         IN <<least>> \o Ascending(S \ {least})

\* a line the heuristic is to flag, as the claim words it
Flagged(line) ==
    LET t == Strip(line)
    IN /\ t # <<>>
       /\ t[Len(t)] \notin {";", "{", "}"}
       /\ ~(Len(t) >= 2 /\ t[1] = "/" /\ t[2] = "/")

FlaggedLineNumbers(code) ==
    LET lines == Split(code, "\n")
    IN Ascending({i \in 1..Len(lines) : Flagged(lines[i])})

\* tsc was launched and reported no diagnostic: it was missing, printed
\* nothing, or printed text without an error or warning marker
NoDiagnostics(c) ==
    /\ calls[c].by = "ts_tsc_lint"
    /\ "tsc" \in calls[c].tools
    /\ \/ calls[c].run.kind = "none"
       \/ calls[c].run.kind = "raise" /\ calls[c].run.exc = "FileNotFoundError"
       \/ /\ calls[c].run.kind = "output"
          /\ \A i \in 1..Len(calls[c].run.text) :
                calls[c].run.text[i] \notin {ErrorMarker, WarningMarker}

\* C8: whenever tsc reports no diagnostics, whatever it printed, the result
\* holds a Finding at column 1 for exactly the lines of the file that are
\* non-blank, do not end in ; { or } and are no // comment, in ascending order.
C8_FallbackApplied ==
    \A c \in Callers :
        (Done(c) /\ NoDiagnostics(c) /\ file.readable) =>
            LET r == calls[c].res
            IN /\ r.kind = "list"
               /\ [k \in 1..Len(r.val) |-> r.val[k].line]
                     = FlaggedLineNumbers(file.text)
               /\ \A k \in 1..Len(r.val) : r.val[k].column = 1

\* the (line,column) location segments of a line: "(" digits "," digits ")"
Locations(line) ==
    {<<i, j, k>> \in (1..Len(line)) \X (1..Len(line)) \X (1..Len(line)) :
        /\ i < j /\ j < k
        /\ line[i] = "(" /\ line[j] = "," /\ line[k] = ")"
        /\ IsInt(SubSeq(line, i + 1, j - 1))
        /\ IsInt(SubSeq(line, j + 1, k - 1))}

\* what the claim expects of one line of output: its location, if it has a
\* marker and a location segment
ExpectedOfLine(line) ==
    IF HasMarker(line) /\ Locations(line) # {}
    THEN LET first == CHOOSE l \in Locations(line) :
                          \A m \in Locations(line) : l[1] <= m[1]
         IN <<<<IntOf(SubSeq(line, first[1] + 1, first[2] - 1)),
                IntOf(SubSeq(line, first[2] + 1, first[3] - 1))>>>>
    ELSE <<>>

ExpectedOfOutput(text) ==
    LET lines == Split(text, "\n")
    IN Flatten([i \in 1..Len(lines) |-> ExpectedOfLine(lines[i])])

\* tsc printed something, which ts_tsc_lint parsed
TscParsed(c) ==
    /\ calls[c].by = "ts_tsc_lint"
    /\ "tsc" \in calls[c].tools
    /\ calls[c].run.kind = "output"
    /\ Len(calls[c].run.text) > 0

\* the lines of the output that have a marker and a location segment
Diagnostics(text) ==
    SelectSeq(Split(text, "\n"),
              LAMBDA line : HasMarker(line) /\ Locations(line) # {})

\* C9: each line of tsc's output with an error or warning marker and a
\* (line,column) location segment gives exactly one Finding, in output order,
\* carrying that line and column.  (A Finding's message is the line it was
\* parsed from.)
C9_FindingPerDiagnostic ==
    \A c \in Callers :
        (Done(c) /\ TscParsed(c)) =>
            LET r == calls[c].res
                ds == Diagnostics(calls[c].run.text)
            IN /\ r.kind = "list"
               /\ LET fs == SelectSeq(r.val, LAMBDA f :
                                \E i \in 1..Len(ds) : f.message = ds[i])
                  IN [k \in 1..Len(fs) |-> <<fs[k].line, fs[k].column>>]
                        = ExpectedOfOutput(calls[c].run.text)

-----------------------------------------------------------------------------
(* Properties of interleaved calls of ts_eslint.                           *)

HoldsTemp(c) == calls[c].pc \in {"write", "run", "running", "finally"}

\* a call between the creation of its file and its unlink has its own file
\* under temp_config_path, and passed that path to the eslint it runs
OwnTempFile ==
    \A c \in Callers :
        /\ HoldsTemp(c) => disk[calls[c].path] = c
        /\ At(c, "running") => calls[c].cmd = calls[c].path

\* a file goes, or is replaced, only by the unlink of the call that created it
UnlinkOwnOnly ==
    \A n \in Names :
        (disk[n] # 0 /\ disk'[n] # disk[n]) =>
            /\ disk'[n] = 0
            /\ calls[disk[n]].pc = "finally"
            /\ calls'[disk[n]].pc = "done"

FlagsKept ==
    /\ TS_INSTALLED' = TS_INSTALLED
    /\ ESLINT_INSTALLED' = ESLINT_INSTALLED

\* C10: under any interleaving each ts_eslint call uses its own temporary
\* file, which exists while its eslint runs; no call removes another call's
\* file; no call writes the availability flags.
C10_Independent == []OwnTempFile /\ [][UnlinkOwnOnly /\ FlagsKept]_vars

\* two calls run eslint at the same time
C10_Witness ==
    \E c, d \in Callers :
        /\ c # d
        /\ At(c, "running") /\ At(d, "running")
        /\ calls[c].cmd # calls[d].cmd

====
